---- MODULE Spec2Model ----
(***************************************************************************)
(* Model of the workspace-agent folder tree: the Workspace /               *)
(* WorkspaceFolder models, the merge performed by Workspace.create_folder, *)
(* the JSON sidecar written by Workspace.save and read by Workspace.load,  *)
(* and the create / read / delete functions built on them.                 *)
(*                                                                         *)
(* Strings are sequences of one-character strings, so that sanitisation,   *)
(* path rendering and path parsing are computed character by character.    *)
(* A filesystem path is the sequence of its parts, as pathlib's            *)
(* PurePath.parts gives them: an absolute path starts with the part "/".   *)
(***************************************************************************)
EXTENDS Naturals, Sequences, FiniteSets, TLC

VARIABLES dirs, files, workspace, last, prev, steps, callers, order,
          exit_code

vars == <<dirs, files, workspace, last, prev, steps, callers, order,
          exit_code>>

----------------------------------------------------------------------------
(* Bounds of the model. *)

\* Longest chain of names given to create_folder.
MaxChainLen == 2

\* Number of operations in one run.
MaxSteps == 3

\* The longest of the short strings the sanitiser is given.
MaxNameLen == 3

----------------------------------------------------------------------------
(* Strings and the sanitiser (wa/utils.py). *)

\* name[:255]
MaxPathnameLen == 255

Min(a, b) == IF a < b THEN a ELSE b

\* The characters the regular expression of create_pathname removes; of the
\* control characters 0x00-0x1F, those a TLA+ string can spell.
ForbiddenChars ==
    {"<", ">", ":", "\"", "/", "\\", "|", "?", "*", "\t", "\n", "\f", "\r"}

ReplaceSpaces(s) == [i \in 1..Len(s) |-> IF s[i] = " " THEN "_" ELSE s[i]]

\* A faulty strip: only the first forbidden character is removed (count=1).
StripFirstForbidden(s) ==
    IF \A i \in 1..Len(s) : s[i] \notin ForbiddenChars THEN s
    ELSE [i \in 1..(Len(s) - 1) |->
            IF i < (CHOOSE k \in 1..Len(s) :
                      /\ s[k] \in ForbiddenChars
                      /\ \A j \in 1..(k - 1) : s[j] \notin ForbiddenChars)
            THEN s[i] ELSE s[i + 1]]

StripForbidden(s) == SelectSeq(s, LAMBDA c : c \notin ForbiddenChars)

\* A faulty slice: s[:n + 1]
SliceOneMore(s, n) == SubSeq(s, 1, Min(Len(s), n + 1))

\* s[:n]
Slice(s, n) == SubSeq(s, 1, Min(Len(s), n))

create_pathname(name) ==
    Slice(StripForbidden(ReplaceSpaces(name)), MaxPathnameLen)

----------------------------------------------------------------------------
(* pathlib paths. *)

Anchor == <<"/">>

EmptyPath == <<>>

IsAbsolute(p) == p # <<>> /\ Head(p) = Anchor

\* The pieces of s between "/" characters, empty pieces included.
SlashAt(s) == {i \in 1..Len(s) : s[i] = "/"}

FirstSlash(s) == CHOOSE i \in SlashAt(s) : \A j \in SlashAt(s) : i <= j

RECURSIVE SplitSlash(_, _)
SplitSlash(s, cur) ==
    IF SlashAt(s) = {} THEN <<cur \o s>>
    ELSE <<cur \o SubSeq(s, 1, FirstSlash(s) - 1)>>
           \o SplitSlash(SubSeq(s, FirstSlash(s) + 1, Len(s)), <<>>)

\* Path(s): empty and "." components are dropped, a leading "/" anchors.
ParsePath(s) ==
    (IF s # <<>> /\ Head(s) = "/" THEN <<Anchor>> ELSE <<>>)
      \o SelectSeq(SplitSlash(s, <<>>),
                   LAMBDA seg : seg # <<>> /\ seg # <<".">>)

RECURSIVE JoinSlash(_)
JoinSlash(parts) ==
    IF parts = <<>> THEN <<>>
    ELSE IF Len(parts) = 1 THEN Head(parts)
    ELSE Head(parts) \o <<"/">> \o JoinSlash(Tail(parts))

\* str(path): the empty path renders as ".".
PathStr(p) ==
    IF p = <<>> THEN <<".">>
    ELSE IF IsAbsolute(p) THEN <<"/">> \o JoinSlash(Tail(p))
    ELSE JoinSlash(p)

\* path / s for a string s (PurePath.__truediv__).
PathJoin(p, s) ==
    IF s # <<>> /\ Head(s) = "/" THEN ParsePath(s) ELSE p \o ParsePath(s)

\* path.parent: the anchor and the empty path are their own parents.
Parent(p) ==
    IF p = <<>> \/ p = <<Anchor>> THEN p ELSE SubSeq(p, 1, Len(p) - 1)

\* p and every ancestor of p: what mkdir(parents=True) makes sure exists.
Ancestors(p) == {SubSeq(p, 1, n) : n \in 0..Len(p)}

IsPrefix(p, q) == Len(p) <= Len(q) /\ SubSeq(q, 1, Len(p)) = p

----------------------------------------------------------------------------
(* The models: WorkspaceBaseModel, WorkspaceFolder, Workspace. *)

\* A folder tree is a function from chains of dictionary keys to nodes: the
\* node at <<k1, ..., kn>> is folders[k1].folders[k2]...folders[kn].
EmptyTree == [c \in {} |-> <<>>]

\* The keys of the folders dictionary of the node at chain pos (<<>>: the
\* workspace itself).
ChildKeys(tree, pos) ==
    {c[Len(c)] : c \in {d \in DOMAIN tree : Len(d) = Len(pos) + 1
                                          /\ SubSeq(d, 1, Len(pos)) = pos}}

\* WorkspaceFolder(name=name): the name validator sanitises, the other
\* fields take their defaults.
WorkspaceFolder(name, fls) ==
    [name |-> create_pathname(name), path |-> EmptyPath, files |-> fls]

\* config_file: str = "workspace.json". The file name is one token: no
\* operation of the model looks inside it.
config_file_default == <<"workspace.json">>

\* version: default_factory=lambda: __version__
version_default == <<"v">>

\* bool(path): pathlib paths define neither __bool__ nor __len__.
Truthy(p) == TRUE

\* get_project_root() / "workspaces"
DefaultWorkspacesPath == <<Anchor, <<"P">>, <<"workspaces">>>>

\* The folders validator. v is the value passed as folders=...: a mapping
\* [shape |-> "dict", items |-> <<[key, item]...>>], a list
\* [shape |-> "list", items |-> <<item...>>] or anything else; an item is a
\* WorkspaceFolder object, a dict or a string, [kind, name, files], name being
\* the string its name comes from. The result maps each key to its item.
\* result[folder.name] = folder, result[folder["name"]] = folder and
\* result[folder] = WorkspaceFolder(name=folder): the key of a list item.
KeyOf(folder) ==
    IF folder.kind = "obj" THEN create_pathname(folder.name) ELSE folder.name

\* A later item replaces an earlier one with the same key.
RECURSIVE parse_list(_)
parse_list(items) ==
    IF items = <<>> THEN EmptyTree
    ELSE (<<KeyOf(items[Len(items)])>> :> items[Len(items)])
           @@ parse_list(SubSeq(items, 1, Len(items) - 1))

RECURSIVE parse_dict(_)
parse_dict(items) ==
    IF items = <<>> THEN EmptyTree
    ELSE (<<items[Len(items)].key>> :> items[Len(items)].item)
           @@ parse_dict(SubSeq(items, 1, Len(items) - 1))

parse_folders(v) ==
    IF v.shape = "dict" THEN parse_dict(v.items)
    ELSE IF v.shape = "list" THEN parse_list(v.items)
    ELSE EmptyTree

\* Validation of the parsed folders as dict[str, WorkspaceFolder]: an object
\* is kept, a dict and (in parse_folders) a string go through the
\* constructor; all three end with the sanitised name.
validate_folders(parsed) ==
    [c \in DOMAIN parsed |-> WorkspaceFolder(parsed[c].name, parsed[c].files)]

\* if self.path == Path(""): self.path = self.workspaces_path / self.name
PopulatePath(w) ==
    IF w.path = EmptyPath
    THEN [w EXCEPT !.path = PathJoin(w.workspaces_path, w.name)]
    ELSE w

populate_missing_paths(w) ==
    IF ~Truthy(w.workspaces_path)
    THEN PopulatePath([w EXCEPT !.workspaces_path = DefaultWorkspacesPath])
    ELSE PopulatePath(w)

\* The absent folders argument: the field default {} is not validated.
NoFolders == [shape |-> "absent", items |-> <<>>]

\* Workspace(name=name, workspaces_path=workspaces_path, folders=v)
NewWorkspace(name, workspaces_path, v) ==
    populate_missing_paths(
        [live |-> TRUE,
         name |-> create_pathname(name),
         version |-> version_default,
         path |-> EmptyPath,
         workspaces_path |-> workspaces_path,
         config_file |-> config_file_default,
         folders |-> IF v = NoFolders THEN EmptyTree
                     ELSE validate_folders(parse_folders(v)),
         files |-> <<>>])

\* No Workspace object held.
NoWorkspace ==
    [live |-> FALSE, name |-> <<>>, version |-> <<>>, path |-> EmptyPath,
     workspaces_path |-> EmptyPath, config_file |-> <<>>,
     folders |-> EmptyTree, files |-> <<>>]

----------------------------------------------------------------------------
(* The sidecar: Workspace.save and Workspace.load. *)

Exists(p, d, f) == p \in d \/ p \in DOMAIN f

\* A faulty model_dump_json: the folders are dumped without their own folders.
model_dump_json_shallow(w) ==
    [name |-> w.name,
     version |-> w.version,
     path |-> PathStr(w.path),
     workspaces_path |-> PathStr(w.workspaces_path),
     config_file |-> w.config_file,
     folders |-> [c \in {k \in DOMAIN w.folders : Len(k) = 1} |->
                    [name |-> w.folders[c].name,
                     path |-> PathStr(w.folders[c].path),
                     files |-> w.folders[c].files]],
     files |-> w.files]

\* model_dump_json: paths become strings, the folders dictionaries keep their
\* keys at every depth.
model_dump_json(w) ==
    [name |-> w.name,
     version |-> w.version,
     path |-> PathStr(w.path),
     workspaces_path |-> PathStr(w.workspaces_path),
     config_file |-> w.config_file,
     folders |-> [c \in DOMAIN w.folders |->
                    [name |-> w.folders[c].name,
                     path |-> PathStr(w.folders[c].path),
                     files |-> w.folders[c].files]],
     files |-> w.files]

\* model_validate_json: the validators run again on every name, the folders
\* objects are dictionaries (kept keyed as they are), strings become paths.
model_validate_json(j) ==
    populate_missing_paths(
        [live |-> TRUE,
         name |-> create_pathname(j.name),
         version |-> j.version,
         path |-> ParsePath(j.path),
         workspaces_path |-> ParsePath(j.workspaces_path),
         config_file |-> j.config_file,
         folders |-> [c \in DOMAIN j.folders |->
                        [name |-> create_pathname(j.folders[c].name),
                         path |-> ParsePath(j.folders[c].path),
                         files |-> j.folders[c].files]],
         files |-> j.files])

\* Workspace.save(): the directories and files after it.
SavePath(w) == PathJoin(w.path, w.config_file)

SaveDirs(w, d) == d \cup Ancestors(Parent(SavePath(w)))

\* A faulty save: a sidecar already there is not written again.
SaveFilesOnce(w, f) == f @@ (SavePath(w) :> model_dump_json(w))

SaveFiles(w, f) == (SavePath(w) :> model_dump_json(w)) @@ f

\* What save raises: mkdir(parents=True, exist_ok=True) when the parent is a
\* regular file, write_text when the sidecar's path is a directory.
SaveError(w, d, f) ==
    IF Parent(SavePath(w)) \in DOMAIN f THEN "FileExistsError"
    ELSE IF SavePath(w) \in d THEN "IsADirectoryError"
    ELSE ""

----------------------------------------------------------------------------
(* WorkspaceFolder.initialize and Workspace._merge_folders. *)

\* A faulty mkdir: exist_ok is not passed on, an existing directory always
\* raises.
MkdirErrorStrict(p, force, d, f) ==
    IF Exists(p, d, f) THEN "FileExistsError"
    ELSE IF Parent(p) \notin d THEN "FileNotFoundError"
    ELSE ""

\* A faulty mkdir: exist_ok is always set, an existing directory never raises.
MkdirErrorLenient(p, force, d, f) ==
    IF Exists(p, d, f)
    THEN IF p \in d THEN "" ELSE "FileExistsError"
    ELSE IF Parent(p) \notin d THEN "FileNotFoundError"
    ELSE ""

\* Path.mkdir(exist_ok=force), parents=False: the error it raises, "" if none.
MkdirError(p, force, d, f) ==
    IF Exists(p, d, f)
    THEN IF force /\ p \in d THEN "" ELSE "FileExistsError"
    ELSE IF Parent(p) \notin d THEN "FileNotFoundError"
    ELSE ""

\* What a node reports once its folders were initialized: its own path first.
Below(p, sub) == [err |-> sub.err, dirs |-> sub.dirs, paths |-> <<p>> \o sub.paths]

\* initialize(force) of a node whose path is p and whose folders hold, one
\* under the other, the keys of rest. Gives the error raised ("" if none),
\* the directories afterwards, and the paths of the node and of those of its
\* descendants that were given one, top-down.
RECURSIVE initialize(_, _, _, _, _)
initialize(p, rest, force, d, f) ==
    IF MkdirError(p, force, d, f) # ""
    THEN [err |-> MkdirError(p, force, d, f), dirs |-> d, paths |-> <<p>>]
    ELSE IF rest = <<>> THEN [err |-> "", dirs |-> d \cup {p}, paths |-> <<p>>]
    ELSE Below(p, initialize(PathJoin(p, Head(rest)), Tail(rest), force,
                             d \cup {p}, f))

\* The nodes of a new branch: keys[1] under pos, keys[2] under it, ..., with
\* the paths initialize gave them.
Branch(pos, keys, paths) ==
    [c \in {pos \o SubSeq(keys, 1, k) : k \in 1..Len(keys)} |->
        [name |-> c[Len(c)], path |-> paths[Len(c) - Len(pos)],
         files |-> <<>>]]

\* A faulty insertion: existing.folders = {name: new_nested}, the folders the
\* existing node had are gone.
AttachReplacing(tree, pos, keys, init) ==
    [err |-> init.err,
     tree |-> IF init.err = ""
              THEN Branch(pos, keys, init.paths)
                   @@ [c \in {k \in DOMAIN tree : ~IsPrefix(pos, k) \/ k = pos}
                         |-> tree[c]]
              ELSE tree,
     dirs |-> init.dirs,
     paths |-> init.paths]

\* existing.folders[name] = new_nested, once new_nested.initialize returned:
\* the branch is in the tree unless initialize raised.
Attach(tree, pos, keys, init) ==
    [err |-> init.err,
     tree |-> IF init.err = "" THEN Branch(pos, keys, init.paths) @@ tree
              ELSE tree,
     dirs |-> init.dirs,
     paths |-> init.paths]

\* new_nested.path = existing.folders[name].path, then the merge below it.
Copied(p, sub) ==
    [err |-> sub.err, tree |-> sub.tree, dirs |-> sub.dirs,
     paths |-> <<p>> \o sub.paths]

\* _merge_folders(existing, new, force): existing is the node at pos of tree,
\* new holds, one under the other, the keys of rest. Gives the error raised,
\* the tree and the directories afterwards, and the paths given to the
\* descendants of new, top-down.
RECURSIVE merge_folders(_, _, _, _, _, _)
merge_folders(tree, pos, rest, force, d, f) ==
    IF rest = <<>>
    THEN [err |-> "", tree |-> tree, dirs |-> d, paths |-> <<>>]
    ELSE IF Head(rest) \in ChildKeys(tree, pos)
    THEN Copied(tree[Append(pos, Head(rest))].path,
                merge_folders(tree, Append(pos, Head(rest)), Tail(rest),
                              force, d, f))
    ELSE Attach(tree, pos, rest,
                initialize(PathJoin(tree[pos].path, Head(rest)), Tail(rest),
                           force, d, f))

----------------------------------------------------------------------------
(* Workspace.create_folder. *)

\* datetime.now().strftime("_%Y%m%d_%H%M%S"), as one token.
Timestamp == <<"_", "T">>

\* A request is the name_or_path argument: [kind |-> "str", names |-> <<s>>]
\* or [kind |-> "list", names |-> <<s1, ..., sn>>].
\* append_timestamp_to_name_or_path: the error raised and the new request.
append_timestamp_to_name_or_path(req) ==
    IF req.kind = "list" /\ req.names = <<>>
    THEN [err |-> "IndexError", req |-> req]
    ELSE [err |-> "",
          req |-> [req EXCEPT !.names[Len(req.names)] = @ \o Timestamp]]

\* The names of the WorkspaceFolder objects built from the request, outermost
\* first; each is the key of its node in the folders of the one before.
ChainOf(req) == [i \in 1..Len(req.names) |-> create_pathname(req.names[i])]

NoNode == [name |-> <<>>, path |-> EmptyPath, folders |-> {}]

\* _get_deepest_folder(workspace_folder) on the object built from the request:
\* the last node of the chain, which has no folders of its own.
get_deepest_folder(chain, paths) ==
    [name |-> chain[Len(chain)], path |-> paths[Len(paths)], folders |-> {}]

\* The outcome of a call that raised e.
Raised(e, w, d, f) ==
    [outcome |-> e, workspace |-> w, dirs |-> d, files |-> f, ret |-> NoNode]

\* self.save() and the return of create_folder, unless the merge or the
\* initialize before them raised.
SaveAndReturn(w1, chain, r, f) ==
    IF r.err # "" THEN Raised(r.err, w1, r.dirs, f)
    ELSE IF SaveError(w1, r.dirs, f) = "FileExistsError"
    THEN Raised("FileExistsError", w1, r.dirs, f)
    ELSE IF SaveError(w1, r.dirs, f) # ""
    THEN Raised(SaveError(w1, r.dirs, f), w1, SaveDirs(w1, r.dirs), f)
    ELSE [outcome |-> "ok", workspace |-> w1, dirs |-> SaveDirs(w1, r.dirs),
          files |-> SaveFiles(w1, f),
          ret |-> get_deepest_folder(chain, r.paths)]

\* The merge of the object built into its existing top-level folder; the
\* object's own path is never set.
MergeTop(w, chain, force, d, f) ==
    Copied(EmptyPath, merge_folders(w.folders, <<Head(chain)>>, Tail(chain),
                                    force, d, f))

\* The paths of a node at p and of the nodes keyed rest below it.
RECURSIVE PathsBelow(_, _)
PathsBelow(p, rest) ==
    IF rest = <<>> THEN <<p>>
    ELSE <<p>> \o PathsBelow(PathJoin(p, Head(rest)), Tail(rest))

\* A faulty creation: the paths are set and the object is inserted, but
\* initialize is never called.
InitializeTopUnmade(w, chain, force, d, f) ==
    Attach(w.folders, <<>>, chain,
           [err |-> "", dirs |-> d,
            paths |-> PathsBelow(PathJoin(w.path, Head(chain)), Tail(chain))])

\* The object built becomes a new top-level folder.
InitializeTop(w, chain, force, d, f) ==
    Attach(w.folders, <<>>, chain,
           initialize(PathJoin(w.path, Head(chain)), Tail(chain), force, d, f))

Merged(w, chain, r, f) ==
    SaveAndReturn([w EXCEPT !.folders = r.tree], chain, r, f)

\* A faulty create_folder: the test for an existing top-level folder is
\* missing, the object built is always initialized and inserted.
CreateChainAnew(w, chain, force, d, f) ==
    Merged(w, chain, InitializeTop(w, chain, force, d, f), f)

\* Lines 121-135 of create_folder, for the chain of the object built.
CreateChain(w, chain, force, d, f) ==
    IF Head(chain) \in ChildKeys(w.folders, <<>>)
    THEN Merged(w, chain, MergeTop(w, chain, force, d, f), f)
    ELSE Merged(w, chain, InitializeTop(w, chain, force, d, f), f)

\* Lines 100-135 of create_folder, once the timestamp is appended.
BuildAndCreate(w, ts, force, d, f) ==
    IF ts.err # "" THEN Raised(ts.err, w, d, f)
    ELSE IF ts.req.names = <<>> THEN Raised("UnboundLocalError", w, d, f)
    ELSE CreateChain(w, ChainOf(ts.req), force, d, f)

\* Workspace.create_folder(name_or_path, append_timestamp, force): the
\* outcome ("ok" or the exception), the workspace object, the directories and
\* the files afterwards, and the node returned.
create_folder(w, req, append_timestamp, force, d, f) ==
    IF append_timestamp
    THEN BuildAndCreate(w, append_timestamp_to_name_or_path(req), force, d, f)
    ELSE BuildAndCreate(w, [err |-> "", req |-> req], force, d, f)

----------------------------------------------------------------------------
(* The functions of wa.workspace and wa.folder. *)

\* workspace.save() and the return of create_workspace.
Saved(w, d, f) ==
    IF SaveError(w, d, f) = "FileExistsError"
    THEN Raised("FileExistsError", w, d, f)
    ELSE IF SaveError(w, d, f) # ""
    THEN Raised(SaveError(w, d, f), w, SaveDirs(w, d), f)
    ELSE [outcome |-> "ok", workspace |-> w, dirs |-> SaveDirs(w, d),
          files |-> SaveFiles(w, f), ret |-> NoNode]

\* A faulty create_workspace: with force, what lies under the workspace
\* directory is removed before the sidecar is written.
create_workspace_clearing(workspace_name, workspaces_path, force, v, d, f) ==
    IF Exists(PathJoin(workspaces_path, workspace_name),
              d \cup Ancestors(workspaces_path), f) /\ ~force
    THEN Raised("FileExistsError", NoWorkspace,
                d \cup Ancestors(workspaces_path), f)
    ELSE Saved(NewWorkspace(workspace_name, workspaces_path, v),
               {x \in d \cup Ancestors(workspaces_path) :
                  \/ ~IsPrefix(NewWorkspace(workspace_name, workspaces_path,
                                            v).path, x)
                  \/ x = NewWorkspace(workspace_name, workspaces_path, v).path},
               f)

\* create_workspace(workspace_name, workspaces_path, force, folders=v)
create_workspace(workspace_name, workspaces_path, force, v, d, f) ==
    IF Exists(PathJoin(workspaces_path, workspace_name),
              d \cup Ancestors(workspaces_path), f) /\ ~force
    THEN Raised("FileExistsError", NoWorkspace,
                d \cup Ancestors(workspaces_path), f)
    ELSE Saved(NewWorkspace(workspace_name, workspaces_path, v),
               d \cup Ancestors(workspaces_path), f)

\* A faulty load: the folders of the sidecar are not read.
load_without_folders(path, d, f) ==
    IF path \notin DOMAIN f
    THEN Raised("FileNotFoundError", NoWorkspace, d, f)
    ELSE [outcome |-> "ok",
          workspace |-> [model_validate_json(f[path])
                           EXCEPT !.folders = EmptyTree],
          dirs |-> d, files |-> f, ret |-> NoNode]

\* Workspace.load(path)
load(path, d, f) ==
    IF path \notin DOMAIN f
    THEN Raised("FileNotFoundError", NoWorkspace, d, f)
    ELSE [outcome |-> "ok", workspace |-> model_validate_json(f[path]),
          dirs |-> d, files |-> f, ret |-> NoNode]

\* read_workspace(workspace_name, workspaces_path)
read_workspace(workspace_name, workspaces_path, d, f) ==
    IF ~Exists(workspaces_path, d, f)
    THEN Raised("FileNotFoundError", NoWorkspace, d, f)
    ELSE IF ~Exists(PathJoin(workspaces_path, workspace_name), d, f)
    THEN Raised("FileNotFoundError", NoWorkspace, d, f)
    ELSE IF ~Exists(Append(PathJoin(workspaces_path, workspace_name),
                           config_file_default), d, f)
    THEN Raised("FileNotFoundError", NoWorkspace, d, f)
    ELSE load(Append(PathJoin(workspaces_path, workspace_name),
                     config_file_default), d, f)

\* return workspace.create_folder(...), on the workspace got.
CreateFolderIn(got, req, ts, force) ==
    IF got.outcome # "ok" THEN got
    ELSE create_folder(got.workspace, req, ts, force, got.dirs, got.files)

\* create_workspace_folder(name_or_path, workspace_name, workspaces_path,
\*                         append_timestamp, force)
create_workspace_folder(req, workspace_name, workspaces_path, ts, force, d, f) ==
    IF ~Exists(PathJoin(workspaces_path, workspace_name), d, f)
    THEN CreateFolderIn(create_workspace(workspace_name, workspaces_path,
                                         FALSE, NoFolders, d, f),
                        req, ts, force)
    ELSE CreateFolderIn(read_workspace(workspace_name, workspaces_path, d, f),
                        req, ts, force)

\* A faulty read: a missing workspaces folder is made, as the listing does.
read_workspace_folder_making(name, workspaces_folder_path, d, f) ==
    IF ~Exists(PathJoin(workspaces_folder_path, name),
               d \cup Ancestors(workspaces_folder_path), f)
    THEN Raised("FileNotFoundError", NoWorkspace,
                d \cup Ancestors(workspaces_folder_path), f)
    ELSE load(Append(PathJoin(workspaces_folder_path, name),
                     config_file_default), d, f)

\* read_workspace_folder(name, workspaces_folder_path) of wa.folder.read: the
\* third test repeats the second, and Workspace.load raises for a missing
\* file.
read_workspace_folder(name, workspaces_folder_path, d, f) ==
    IF ~Exists(workspaces_folder_path, d, f)
    THEN Raised("FileNotFoundError", NoWorkspace, d, f)
    ELSE IF ~Exists(PathJoin(workspaces_folder_path, name), d, f)
    THEN Raised("FileNotFoundError", NoWorkspace, d, f)
    ELSE IF ~Exists(PathJoin(workspaces_folder_path, name), d, f)
    THEN Raised("FileNotFoundError", NoWorkspace, d, f)
    ELSE load(Append(PathJoin(workspaces_folder_path, name),
                     config_file_default), d, f)

\* shutil.rmtree(path): what is left of a set of paths.
Rmtree(path, paths) == {q \in paths : ~IsPrefix(path, q)}

\* A faulty delete: force is not looked at.
DeleteReadUnforced(read, force) ==
    IF read.outcome # "ok" THEN read
    ELSE IF Cardinality(ChildKeys(read.workspace.folders, <<>>)) > 0
    THEN Raised("FileExistsError", NoWorkspace, read.dirs, read.files)
    ELSE IF ~Exists(read.workspace.path, read.dirs, read.files)
    THEN Raised("FileNotFoundError", NoWorkspace, read.dirs, read.files)
    ELSE [outcome |-> "ok", workspace |-> NoWorkspace,
          dirs |-> Rmtree(read.workspace.path, read.dirs),
          files |-> [q \in Rmtree(read.workspace.path, DOMAIN read.files)
                       |-> read.files[q]],
          ret |-> [NoNode EXCEPT !.path = read.workspace.path]]

\* Lines 20-28 of delete_workspace_folder, on the workspace read.
DeleteRead(read, force) ==
    IF read.outcome # "ok" THEN read
    ELSE IF ~force /\ Cardinality(ChildKeys(read.workspace.folders, <<>>)) > 0
    THEN Raised("FileExistsError", NoWorkspace, read.dirs, read.files)
    ELSE IF ~Exists(read.workspace.path, read.dirs, read.files)
    THEN Raised("FileNotFoundError", NoWorkspace, read.dirs, read.files)
    ELSE [outcome |-> "ok", workspace |-> NoWorkspace,
          dirs |-> Rmtree(read.workspace.path, read.dirs),
          files |-> [q \in Rmtree(read.workspace.path, DOMAIN read.files)
                       |-> read.files[q]],
          ret |-> [NoNode EXCEPT !.path = read.workspace.path]]

\* delete_workspace_folder(name, workspaces_folder_path, force) of
\* wa.folder.delete; its Workspace model names the tree subfolders.
delete_workspace(name, workspaces_path, force, d, f) ==
    DeleteRead(read_workspace_folder(name, workspaces_path, d, f), force)

----------------------------------------------------------------------------
(* The inputs. *)

\* The storage root every call is given.
Root == <<Anchor, <<"W">>>>

\* Names as callers give them: a plain one and one that sanitises to "_".
RawNames == {<<"a">>, <<" ">>}

\* A name that sanitises to the empty string.
EmptyingName == <<"?">>

\* Workspace names: a plain one and one that the sanitiser changes.
WorkspaceNames == {<<"w">>, <<"v", " ">>}

RECURSIVE Chains(_)
Chains(n) ==
    IF n = 0 THEN {<<>>}
    ELSE Chains(n - 1)
           \cup {Append(c, s) : c \in {x \in Chains(n - 1) : Len(x) = n - 1},
                                s \in RawNames}

List(names) == [kind |-> "list", names |-> names]

\* Requests made of Workspace.create_folder: a string, every list of names up
\* to the longest (the empty one included), and lists with an emptying name.
Requests ==
    {[kind |-> "str", names |-> << <<"a">> >>]}
      \cup {List(c) : c \in Chains(MaxChainLen)}
      \cup {List(<<EmptyingName>>), List(<< <<"a">>, EmptyingName >>)}

\* Requests made with append_timestamp=True.
TimestampedRequests ==
    {[kind |-> "str", names |-> << <<"a">> >>], List(<<>>)}

\* Requests made of create_workspace_folder.
FolderRequests == {List(<< <<"a">> >>), List(<< <<"a">>, <<" ">> >>)}

Item(kind, name, fls) == [kind |-> kind, name |-> name, files |-> fls]

\* Values passed as folders=... to create_workspace: each accepted shape, and
\* one that is none of them.
FolderShapes ==
    {[shape |-> "list", items |-> <<Item("str", <<" ">>, <<>>)>>],
     [shape |-> "list", items |-> <<Item("obj", <<" ">>, <<>>)>>],
     [shape |-> "list", items |-> <<Item("dict", <<" ">>, << <<"f">> >>)>>],
     [shape |-> "dict",
      items |-> <<[key |-> <<"a">>, item |-> Item("obj", <<"a">>, <<>>)]>>],
     [shape |-> "other", items |-> <<>>]}

\* Calls of create_workspace: every name with and without force, and the
\* plain name with each folders value.
WorkspaceArgs ==
    {[name |-> n, force |-> fc, folders |-> NoFolders] :
        n \in WorkspaceNames, fc \in BOOLEAN}
      \cup {[name |-> <<"w">>, force |-> FALSE, folders |-> v] :
              v \in FolderShapes}
      \cup {[name |-> <<"w">>, force |-> TRUE,
             folders |-> [shape |-> "list",
                          items |-> <<Item("obj", <<" ">>, <<>>)>>]]}

----------------------------------------------------------------------------
(* The state machine. dirs: the directories on disk; files: the files on   *)
(* disk with their contents; workspace: the Workspace object the caller    *)
(* holds; last: the last call, its arguments, the folders the Workspace    *)
(* object it was made on had before it, its outcome and what it returned;  *)
(* prev: the call before the last; steps: the number of calls made.        *)

NoRequest == [kind |-> "none", names |-> <<>>]

Call(op, name, req, ts, force, before, outcome, ret) ==
    [op |-> op, name |-> name, req |-> req, append_timestamp |-> ts,
     force |-> force, before |-> before, outcome |-> outcome, ret |-> ret]

Earlier(call) ==
    [op |-> call.op, name |-> call.name, req |-> call.req,
     append_timestamp |-> call.append_timestamp, outcome |-> call.outcome]

NoCall == Call("none", <<>>, NoRequest, FALSE, FALSE, EmptyTree, "ok", NoNode)

\* The callers that work on one workspace at the same time, each in a process
\* of its own.
Callers == {1, 2}

\* No caller has begun: none holds a Workspace object.
NoCallers ==
    [i \in Callers |->
       [pc |-> "idle", workspace |-> NoWorkspace, req |-> NoRequest,
        overlapped |-> FALSE]]

\* The working directory and the filesystem root exist.
Init ==
    /\ dirs = {EmptyPath, <<Anchor>>}
    /\ files = EmptyTree
    /\ workspace = NoWorkspace
    /\ last = NoCall
    /\ prev = Earlier(NoCall)
    /\ steps = 0
    /\ callers = NoCallers
    /\ order = <<>>
    /\ exit_code = 0

\* One call: r is what it gave, keep says whether the caller's Workspace
\* object is the one the call returned or worked on.
Step(call, r, keep) ==
    /\ steps < MaxSteps
    /\ steps' = steps + 1
    /\ UNCHANGED <<callers, order, exit_code>>
    /\ prev' = Earlier(last)
    /\ dirs' = r.dirs
    /\ files' = r.files
    /\ workspace' = IF keep THEN r.workspace ELSE workspace
    /\ last' = [call EXCEPT !.outcome = r.outcome, !.ret = r.ret]

\* workspace = create_workspace(name, Root, force, folders=v)
CreateWorkspace(name, force, v) ==
    Step(Call("create_workspace", name, NoRequest, FALSE, force, EmptyTree,
              "ok", NoNode),
         create_workspace(name, Root, force, v, dirs, files),
         create_workspace(name, Root, force, v, dirs, files).outcome = "ok")

\* workspace = read_workspace(name, Root)
ReadWorkspace(name) ==
    Step(Call("read_workspace", name, NoRequest, FALSE, FALSE, EmptyTree,
              "ok", NoNode),
         read_workspace(name, Root, dirs, files),
         read_workspace(name, Root, dirs, files).outcome = "ok")

\* workspace.create_folder(req, append_timestamp=ts, force=force)
WorkspaceCreateFolder(req, ts, force) ==
    /\ workspace.live
    /\ Step(Call("create_folder", <<>>, req, ts, force, workspace.folders,
                 "ok", NoNode),
            create_folder(workspace, req, ts, force, dirs, files),
            TRUE)

\* create_workspace_folder(req, name, Root, ts, force)
CreateWorkspaceFolder(req, name, ts, force) ==
    Step(Call("create_workspace_folder", name, req, ts, force, EmptyTree,
              "ok", NoNode),
         create_workspace_folder(req, name, Root, ts, force, dirs, files),
         FALSE)

\* delete_workspace(name, Root, force)
DeleteWorkspace(name, force) ==
    Step(Call("delete_workspace", name, NoRequest, FALSE, force, EmptyTree,
              "ok", NoNode),
         delete_workspace(name, Root, force, dirs, files),
         FALSE)

Next ==
    \/ \E a \in WorkspaceArgs : CreateWorkspace(a.name, a.force, a.folders)
    \/ \E name \in WorkspaceNames : ReadWorkspace(name)
    \/ \E req \in Requests, force \in BOOLEAN :
          WorkspaceCreateFolder(req, FALSE, force)
    \/ \E req \in TimestampedRequests :
          WorkspaceCreateFolder(req, TRUE, FALSE)
    \/ \E req \in FolderRequests, name \in WorkspaceNames, force \in BOOLEAN :
          CreateWorkspaceFolder(req, name, FALSE, force)
    \/ \E name \in WorkspaceNames, force \in BOOLEAN :
          DeleteWorkspace(name, force)

Spec == Init /\ [][Next]_vars

\* The calls that create: create_workspace, create_workspace_folder and
\* Workspace.create_folder (on an object a create or a read returned).
NextCreate ==
    \/ \E a \in WorkspaceArgs : CreateWorkspace(a.name, a.force, a.folders)
    \/ \E name \in WorkspaceNames : ReadWorkspace(name)
    \/ \E req \in Requests, force \in BOOLEAN :
          WorkspaceCreateFolder(req, FALSE, force)
    \/ \E req \in TimestampedRequests :
          WorkspaceCreateFolder(req, TRUE, FALSE)
    \/ \E req \in FolderRequests, name \in WorkspaceNames, force \in BOOLEAN :
          CreateWorkspaceFolder(req, name, FALSE, force)

SpecCreate == Init /\ [][NextCreate]_vars

----------------------------------------------------------------------------
(* What the claims speak of. *)

\* The chain of sanitised names a create_folder call asked for.
RequestedChain(call) ==
    ChainOf(IF call.append_timestamp
            THEN append_timestamp_to_name_or_path(call.req).req
            ELSE call.req)

\* The positions of the nodes of a chain: its non-empty prefixes.
Prefixes(chain) == {SubSeq(chain, 1, k) : k \in 1..Len(chain)}

\* path / chain[1] / ... / chain[n]
RECURSIVE ChainPath(_, _)
ChainPath(p, chain) ==
    IF chain = <<>> THEN p
    ELSE ChainPath(PathJoin(p, Head(chain)), Tail(chain))

\* A successful Workspace.create_folder was the last call.
FolderCreated == last.op = "create_folder" /\ last.outcome = "ok"

\* The tree recorded in the sidecar of the Workspace object held.
SidecarTree == files[SavePath(workspace)].folders

\* The path of the parent of the node at chain c of workspace w.
ParentPath(w, c) ==
    IF Len(c) = 1 THEN w.path ELSE w.folders[SubSeq(c, 1, Len(c) - 1)].path

\* The loaded form of every sidecar on disk.
LoadedSidecars == {model_validate_json(files[p]) : p \in DOMAIN files}

A == <<"a">>

U == <<"_">>

----------------------------------------------------------------------------
(* C1 *)

\* C1: after a successful create_folder(chain) the tree of the Workspace
\* object is the tree before the call plus exactly the nodes of the chain
\* that were missing: every node there before is still there, unchanged, and
\* the sidecar records the same positions.
MergePreservesSiblings ==
    FolderCreated =>
        /\ DOMAIN workspace.folders
             = DOMAIN last.before \cup Prefixes(RequestedChain(last))
        /\ \A c \in DOMAIN last.before : workspace.folders[c] = last.before[c]
        /\ SavePath(workspace) \in DOMAIN files
        /\ DOMAIN SidecarTree = DOMAIN workspace.folders

\* [a, a] was there, [a, " "] was created: a has both children, in memory and
\* in the sidecar.
MergePreservesSiblingsWitness ==
    /\ FolderCreated
    /\ RequestedChain(last) = <<A, U>>
    /\ <<A, A>> \in DOMAIN last.before
    /\ <<A, U>> \notin DOMAIN last.before
    /\ ChildKeys(workspace.folders, <<A>>) = {A, U}
    /\ ChildKeys(SidecarTree, <<A>>) = {A, U}

----------------------------------------------------------------------------
(* C2 *)

\* The last two calls were create_folder with the same chain on the same
\* Workspace object, and the first succeeded.
SameChainAgain ==
    /\ last.op = "create_folder"
    /\ prev.op = "create_folder"
    /\ prev.outcome = "ok"
    /\ RequestedChain(prev) = RequestedChain(last)

\* C2: create_folder with the same chain a second time, with or without
\* force, raises nothing and leaves the tree and the sidecar with the key
\* sets they had after the first call.
MergeIdempotent ==
    SameChainAgain =>
        /\ last.outcome = "ok"
        /\ DOMAIN workspace.folders = DOMAIN last.before
        /\ DOMAIN SidecarTree = DOMAIN last.before

\* A chain of two names was created twice, the second time without force.
MergeIdempotentWitness ==
    /\ SameChainAgain
    /\ Len(RequestedChain(last)) = 2
    /\ ~last.force
    /\ last.outcome = "ok"
    /\ RequestedChain(last) \in DOMAIN workspace.folders

----------------------------------------------------------------------------
(* C3 *)

\* C3: a successful create_folder(chain) returns a node named after the
\* sanitised last element of the chain, whose path is
\* workspace.path / chain[1] / ... / chain[n], a directory on disk.
DeepestNodeReturned ==
    FolderCreated =>
        /\ last.ret.name = RequestedChain(last)[Len(RequestedChain(last))]
        /\ last.ret.path = ChainPath(workspace.path, RequestedChain(last))
        /\ last.ret.path \in dirs

----------------------------------------------------------------------------
(* C4 *)

----------------------------------------------------------------------------
(* C5 *)

\* Every node of the tree of w has the path of its parent joined with its
\* name.
PathsFollowParents(w) ==
    \A c \in DOMAIN w.folders :
        w.folders[c].path = PathJoin(ParentPath(w, c), w.folders[c].name)

\* C5: every folder node has path == parent.path / name, in the tree of the
\* Workspace object after every create_folder and in every tree loaded from
\* a sidecar.
PathInvariant ==
    /\ FolderCreated => PathsFollowParents(workspace)
    /\ \A w \in LoadedSidecars : PathsFollowParents(w)

----------------------------------------------------------------------------
(* C6 *)

\* C6: in the folders of every Workspace object, built by the constructor
\* from any accepted shape or grown by create_folder, each key is the
\* (sanitised) name of its node.
KeysAreNames ==
    workspace.live =>
        \A c \in DOMAIN workspace.folders :
            c[Len(c)] = workspace.folders[c].name

----------------------------------------------------------------------------
(* C7 *)

\* C7: when create_folder returns, the sidecar at workspace.path /
\* config_file, loaded, has the key sets and the paths of the tree of the
\* Workspace object it was called on.
CreateFolderPersists ==
    FolderCreated =>
        /\ SavePath(workspace) \in DOMAIN files
        /\ DOMAIN model_validate_json(files[SavePath(workspace)]).folders
             = DOMAIN workspace.folders
        /\ \A c \in DOMAIN workspace.folders :
              model_validate_json(files[SavePath(workspace)]).folders[c].path
                = workspace.folders[c].path

\* A chain of two names was created where its first name was there already:
\* the sidecar records the new node.
CreateFolderPersistsWitness ==
    /\ FolderCreated
    /\ Len(RequestedChain(last)) = 2
    /\ <<Head(RequestedChain(last))>> \in DOMAIN last.before
    /\ RequestedChain(last) \notin DOMAIN last.before
    /\ RequestedChain(last) \in DOMAIN SidecarTree

----------------------------------------------------------------------------
(* C8 *)

\* Workspace.load(w.save())
Reloaded(w) == load(SavePath(w), SaveDirs(w, dirs), SaveFiles(w, files)).workspace

\* Two Workspace objects with the same name, version, path, file listing, and
\* the same keys, paths and file listings at every depth.
SameTree(w, l) ==
    /\ l.name = w.name
    /\ l.version = w.version
    /\ l.path = w.path
    /\ l.files = w.files
    /\ DOMAIN l.folders = DOMAIN w.folders
    /\ \A c \in DOMAIN w.folders :
          /\ l.folders[c].path = w.folders[c].path
          /\ l.folders[c].files = w.folders[c].files

\* C8: for every Workspace object w, Workspace.load(w.save()) has the name,
\* the paths and the key sets of w at every depth, and its version and file
\* listings.
RoundTrip == workspace.live => SameTree(workspace, Reloaded(workspace))

\* A Workspace object with a nested folder, a folder with a file listing and a
\* folder whose path was never set.
RoundTripWitness ==
    /\ workspace.live
    /\ \E c \in DOMAIN workspace.folders : Len(c) = 2
    /\ \E c \in DOMAIN workspace.folders : workspace.folders[c].files # <<>>
    /\ \E c \in DOMAIN workspace.folders : workspace.folders[c].path = EmptyPath

----------------------------------------------------------------------------
(* C9 *)

\* C9: create_workspace(name, force=False) raises FileExistsError whenever
\* the directory of that workspace exists, and then leaves every sidecar as
\* it was.
CreateWorkspaceGuarded ==
    [][(/\ last'.op = "create_workspace"
        /\ ~last'.force
        /\ PathJoin(Root, create_pathname(last'.name)) \in dirs)
       => (last'.outcome = "FileExistsError" /\ files' = files)]_vars

----------------------------------------------------------------------------
(* C10 *)

\* The sidecar of the workspace called name.
SidecarOf(name) == Append(PathJoin(Root, name), config_file_default)

\* C10: deleting a workspace that has a sidecar raises FileExistsError
\* exactly when force is not given and the sidecar records a top-level
\* folder, and then nothing on disk changes; otherwise the directory of the
\* workspace goes with everything under it, nothing else does, and its path
\* is returned.
DestructiveGuard ==
    [][(last'.op = "delete_workspace" /\ SidecarOf(last'.name) \in DOMAIN files)
       => IF ~last'.force
               /\ ChildKeys(files[SidecarOf(last'.name)].folders, <<>>) # {}
          THEN /\ last'.outcome = "FileExistsError"
               /\ dirs' = dirs
               /\ files' = files
          ELSE /\ last'.outcome = "ok"
               /\ last'.ret.path = PathJoin(Root, last'.name)
               /\ dirs' = {q \in dirs : ~IsPrefix(PathJoin(Root, last'.name), q)}
               /\ DOMAIN files'
                    = {q \in DOMAIN files :
                          ~IsPrefix(PathJoin(Root, last'.name), q)}
               /\ \A q \in DOMAIN files' : files'[q] = files[q]]_vars

\* A delete without force was refused: the workspace, its sidecar and the
\* folder it records are still there.
DestructiveGuardWitness ==
    /\ last.op = "delete_workspace"
    /\ ~last.force
    /\ last.outcome = "FileExistsError"
    /\ SidecarOf(last.name) \in DOMAIN files
    /\ ChildKeys(files[SidecarOf(last.name)].folders, <<>>) # {}
    /\ PathJoin(Root, last.name) \in dirs

----------------------------------------------------------------------------
(* C11 *)

\* C11: create_workspace_folder creates the workspace only when none of that
\* name exists; otherwise it loads the sidecar and merges into it, so every
\* sidecar there before the call is there after it and records every folder
\* it recorded before, whatever the workspace name.
RecordedFoldersKept ==
    [][last'.op = "create_workspace_folder"
       => \A p \in DOMAIN files :
             /\ p \in DOMAIN files'
             /\ DOMAIN files[p].folders \subseteq DOMAIN files'[p].folders]_vars

----------------------------------------------------------------------------
(* Reading: wa.subfolder.read and wa.folder.read. *)

\* The node at chain c of a tree, with the keys of its own folders.
NodeAt(tree, c) ==
    [name |-> tree[c].name, path |-> tree[c].path,
     folders |-> ChildKeys(tree, c)]

\* A read that raised e; the node returned carries, as its name, the segment
\* that the message of e names as missing.
ReadFailed(e, segment, read) ==
    [outcome |-> e, workspace |-> NoWorkspace, dirs |-> read.dirs,
     files |-> read.files, ret |-> [NoNode EXCEPT !.name = segment]]

\* return subfolder
Found(read, c) ==
    [outcome |-> "ok", workspace |-> NoWorkspace, dirs |-> read.dirs,
     files |-> read.files, ret |-> NodeAt(read.workspace.folders, c)]

Elements(s) == {s[i] : i \in 1..Len(s)}

\* The indices after the first at which the loop of lines 40-48 finds its
\* name missing from the folders of the node before.
MissingAfterFirst(tree, names) ==
    {k \in 2..Len(names) : SubSeq(names, 1, k) \notin DOMAIN tree}

FirstOf(indices) == CHOOSE k \in indices : \A j \in indices : k <= j

\* Lines 20-50 of read_workspace_subfolder, on the workspace read. The names
\* are looked up as given. The test of line 35 looks for the first name in
\* the copy of the list itself; workspace.subfolders[first] raises KeyError.
SubfolderOf(read, req) ==
    IF read.outcome # "ok" THEN read
    ELSE IF req.kind = "str"
    THEN IF <<req.names[1]>> \notin DOMAIN read.workspace.folders
         THEN ReadFailed("Exception", req.names[1], read)
         ELSE Found(read, <<req.names[1]>>)
    ELSE IF Len(req.names) < 1 THEN ReadFailed("Exception", <<>>, read)
    ELSE IF req.names[1] \notin Elements(req.names)
    THEN ReadFailed("FileNotFoundError", req.names[1], read)
    ELSE IF <<req.names[1]>> \notin DOMAIN read.workspace.folders
    THEN ReadFailed("KeyError", req.names[1], read)
    ELSE IF MissingAfterFirst(read.workspace.folders, req.names) # {}
    THEN ReadFailed("FileNotFoundError",
                    req.names[FirstOf(MissingAfterFirst(read.workspace.folders,
                                                        req.names))],
                    read)
    ELSE Found(read, req.names)

\* read_workspace_subfolder(workspace_subfolder_name, workspace_folder_name,
\*                          workspaces_folder_path)
read_workspace_subfolder(req, name, workspaces_folder_path, d, f) ==
    SubfolderOf(read_workspace_folder(name, workspaces_folder_path, d, f), req)

\* Requests made of read_workspace_subfolder.
ReadRequests ==
    {[kind |-> "str", names |-> << <<"a">> >>], List(<<>>)}
      \cup {List(c) : c \in Chains(MaxChainLen) \ {<<>>}}

\* workspace_path.mkdir(parents=True, exist_ok=True): a directory made by
\* hand under the storage root, with no sidecar in it.
MakeDirectory(name) ==
    Step(Call("mkdir", name, NoRequest, FALSE, FALSE, EmptyTree, "ok", NoNode),
         [outcome |-> "ok", workspace |-> workspace,
          dirs |-> dirs \cup Ancestors(PathJoin(Root, name)),
          files |-> files, ret |-> NoNode],
         FALSE)

\* read_workspace_folder(name, Root)
ReadWorkspaceFolder(name) ==
    Step(Call("read_workspace_folder", name, NoRequest, FALSE, FALSE,
              EmptyTree, "ok", NoNode),
         read_workspace_folder(name, Root, dirs, files),
         read_workspace_folder(name, Root, dirs, files).outcome = "ok")

\* read_workspace_subfolder(req, name, Root)
ReadWorkspaceSubfolder(req, name) ==
    Step(Call("read_workspace_subfolder", name, req, FALSE, FALSE, EmptyTree,
              "ok", NoNode),
         read_workspace_subfolder(req, name, Root, dirs, files),
         FALSE)

\* Workspaces are created and given folders, directories are made by hand,
\* and workspaces and their folders are read.
NextRead ==
    \/ \E a \in WorkspaceArgs : CreateWorkspace(a.name, a.force, a.folders)
    \/ \E req \in FolderRequests, name \in WorkspaceNames, force \in BOOLEAN :
          CreateWorkspaceFolder(req, name, FALSE, force)
    \/ \E name \in WorkspaceNames : MakeDirectory(name)
    \/ \E name \in WorkspaceNames : ReadWorkspaceFolder(name)
    \/ \E req \in ReadRequests, name \in WorkspaceNames :
          ReadWorkspaceSubfolder(req, name)

SpecRead == Init /\ [][NextRead]_vars

----------------------------------------------------------------------------
(* C12 *)

\* C12: reading a folder chain of a workspace that has a sidecar returns the
\* node at the end of the chain; if a segment of the chain, the first
\* included, is missing from the tree, it raises FileNotFoundError naming the
\* first missing segment; either way nothing on disk changes.
ChainReadOrNotFound ==
    [][(/\ last'.op = "read_workspace_subfolder"
        /\ last'.req.names # <<>>
        /\ SidecarOf(last'.name) \in DOMAIN files)
       => /\ dirs' = dirs
          /\ files' = files
          /\ IF last'.req.names \in DOMAIN files[SidecarOf(last'.name)].folders
             THEN /\ last'.outcome = "ok"
                  /\ last'.ret.name
                       = files[SidecarOf(last'.name)]
                           .folders[last'.req.names].name
             ELSE /\ last'.outcome = "FileNotFoundError"
                  /\ \E k \in 1..Len(last'.req.names) :
                        /\ last'.ret.name = last'.req.names[k]
                        /\ SubSeq(last'.req.names, 1, k)
                             \notin DOMAIN files[SidecarOf(last'.name)].folders
                        /\ \A j \in 1..(k - 1) :
                              SubSeq(last'.req.names, 1, j)
                                \in DOMAIN files[SidecarOf(last'.name)].folders]_vars

----------------------------------------------------------------------------
(* C13 *)

\* C13: reading a workspace raises FileNotFoundError when the storage root,
\* the directory of the workspace or its sidecar is absent, and otherwise
\* returns the tree stored in the sidecar; it changes nothing on disk.
ReadOrNotFound ==
    [][last'.op = "read_workspace_folder"
       => /\ dirs' = dirs
          /\ files' = files
          /\ IF \/ ~Exists(Root, dirs, files)
                \/ ~Exists(PathJoin(Root, last'.name), dirs, files)
                \/ ~Exists(SidecarOf(last'.name), dirs, files)
             THEN last'.outcome = "FileNotFoundError"
             ELSE /\ last'.outcome = "ok"
                  /\ workspace'
                       = model_validate_json(files[SidecarOf(last'.name)])]_vars

\* A directory without a sidecar was read.
ReadOrNotFoundWitness ==
    /\ last.op = "read_workspace_folder"
    /\ last.outcome = "FileNotFoundError"
    /\ PathJoin(Root, last.name) \in dirs
    /\ ~Exists(SidecarOf(last.name), dirs, files)

----------------------------------------------------------------------------
(* Listing: wa.folder.list. *)

\* The entries of directory p among a set of paths.
Entries(p, paths) == {q \in paths : Len(q) = Len(p) + 1 /\ IsPrefix(p, q)}

\* The last components of a set of paths.
Names(paths) == {q[Len(q)] : q \in paths}

\* What a listing returns: the names, carried in the folders of the node
\* returned.
Listed(names, d, f) ==
    [outcome |-> "ok", workspace |-> NoWorkspace, dirs |-> d, files |-> f,
     ret |-> [NoNode EXCEPT !.folders = names]]

\* A faulty listing: is_dir() is not asked, files are listed too.
ListDirectoriesAndFiles(p, d, f) ==
    IF p \notin d THEN Raised("FileNotFoundError", NoWorkspace, d, f)
    ELSE Listed(Names(Entries(p, d \cup DOMAIN f)), d, f)

\* Lines 22-36 of list_workspace_folders, once the folder exists; the list
\* built at lines 25-30 is not the one returned.
ListDirectories(p, d, f) ==
    IF p \notin d THEN Raised("FileNotFoundError", NoWorkspace, d, f)
    ELSE Listed(Names(Entries(p, d)), d, f)

\* list_workspace_folders(workspaces_folder_path)
list_workspace_folders(workspaces_folder_path, d, f) ==
    IF ~Exists(workspaces_folder_path, d, f)
    THEN ListDirectories(workspaces_folder_path,
                         d \cup Ancestors(workspaces_folder_path), f)
    ELSE ListDirectories(workspaces_folder_path, d, f)

\* A file that is no sidecar.
StrayName == <<"f">>

\* The folders listed, by their place under the storage root: the root
\* itself, a workspace, and the place of the stray file.
ListedPlaces == {<<>>, <<"w">>, StrayName}

\* (workspaces_path / "f").write_text(...): a regular file made by hand
\* under the storage root; what it holds is never read.
WriteFile ==
    /\ ~Exists(PathJoin(Root, StrayName), dirs, files)
    /\ Step(Call("write_text", StrayName, NoRequest, FALSE, FALSE, EmptyTree,
                 "ok", NoNode),
            [outcome |-> "ok", workspace |-> workspace,
             dirs |-> dirs \cup Ancestors(Root),
             files |-> (PathJoin(Root, StrayName)
                          :> model_dump_json(NoWorkspace)) @@ files,
             ret |-> NoNode],
            FALSE)

\* list_workspace_folders(Root / place)
ListWorkspaceFolders(place) ==
    Step(Call("list_workspace_folders", place, NoRequest, FALSE, FALSE,
              EmptyTree, "ok", NoNode),
         list_workspace_folders(PathJoin(Root, place), dirs, files),
         FALSE)

\* Workspaces are created and given folders, directories and a file are made
\* by hand, and folders are listed.
NextList ==
    \/ \E a \in WorkspaceArgs : CreateWorkspace(a.name, a.force, a.folders)
    \/ \E req \in FolderRequests, name \in WorkspaceNames, force \in BOOLEAN :
          CreateWorkspaceFolder(req, name, FALSE, force)
    \/ \E name \in WorkspaceNames : MakeDirectory(name)
    \/ WriteFile
    \/ \E place \in ListedPlaces : ListWorkspaceFolders(place)

SpecList == Init /\ [][NextList]_vars

----------------------------------------------------------------------------
(* C14 *)

\* The folder a listing was asked for.
PlaceListed(call) == PathJoin(Root, call.name)

----------------------------------------------------------------------------
(* C15 *)

\* C15: create_folder given an empty list of names raises an error of its
\* own, not the crash of an unbound variable or of an index out of range,
\* with and without append_timestamp.
EmptyChainNamedError ==
    (/\ last.op = "create_folder"
     /\ last.req.kind = "list"
     /\ last.req.names = <<>>)
      => last.outcome \notin {"ok", "UnboundLocalError", "IndexError"}

----------------------------------------------------------------------------
(* WorkspaceFolder.initialize, called on its own. *)

\* What a call of initialize gave: the error raised if any, the directories
\* afterwards and, in the folders of the node returned, the paths it assigned
\* to the descendants of the node.
Initialized(p, r, f) ==
    [outcome |-> IF r.err = "" THEN "ok" ELSE r.err,
     workspace |-> NoWorkspace, dirs |-> r.dirs, files |-> f,
     ret |-> [name |-> <<>>, path |-> p,
              folders |-> {r.paths[k] : k \in 2..Len(r.paths)}]]

\* The paths of the nodes initialized, under the storage root: a workspace
\* directory, a folder in it, and one whose parent is missing.
InitializedPlaces == {<<"w">>, <<"w", "/", "a">>, <<"x", "/", "a">>}

\* The folders of the nodes initialized, one under the other: none, one, two,
\* and one named as the sidecar.
InitializedFolders ==
    {<<>>, << <<"a">> >>, << <<"a">>, <<"_">> >>, <<config_file_default>>}

\* WorkspaceFolder(name=..., path=Root / place, folders=...).initialize(force)
InitializeFolder(place, keys, force) ==
    Step(Call("initialize", place, List(keys), FALSE, force, EmptyTree, "ok",
              NoNode),
         Initialized(PathJoin(Root, place),
                     initialize(PathJoin(Root, place), keys, force, dirs,
                                files),
                     files),
         FALSE)

\* Workspaces are created and given folders, and folder nodes are
\* initialized on their own.
NextInitialize ==
    \/ \E name \in WorkspaceNames, force \in BOOLEAN :
          CreateWorkspace(name, force, NoFolders)
    \/ \E req \in FolderRequests, name \in WorkspaceNames, force \in BOOLEAN :
          CreateWorkspaceFolder(req, name, FALSE, force)
    \/ \E place \in InitializedPlaces, keys \in InitializedFolders,
          force \in BOOLEAN :
          InitializeFolder(place, keys, force)

SpecInitialize == Init /\ [][NextInitialize]_vars

----------------------------------------------------------------------------
(* C16 *)

\* The path of the node a call of initialize was made on.
PlaceInitialized(call) == PathJoin(Root, call.name)

\* The paths the descendants of that node are given.
DescendantPaths(call) ==
    {ChainPath(PlaceInitialized(call), SubSeq(call.req.names, 1, k)) :
        k \in 1..Len(call.req.names)}

----------------------------------------------------------------------------
(* The sanitiser on its own: create_pathname and the name validator. *)

\* A letter, a space, a reserved character and a control character.
NameChars == {"a", " ", "/", "\n"}

RECURSIVE Strings(_)
Strings(n) ==
    IF n = 0 THEN {<<>>}
    ELSE Strings(n - 1)
           \cup {Append(s, c) : s \in {x \in Strings(n - 1) : Len(x) = n - 1},
                                c \in NameChars}

\* One letter short of the longest name kept.
Padding == [i \in 1..(MaxPathnameLen - 1) |-> "a"]

\* The names given: short strings, and long ones that begin or end with one.
NameInputs ==
    Strings(MaxNameLen)
      \cup {Padding \o s : s \in Strings(MaxNameLen)}
      \cup {s \o Padding : s \in Strings(MaxNameLen)}

\* One call of create_pathname(s), and Workspace(name=s,
\* workspaces_path=Root, folders=[s]): the validator of the name runs on both
\* names.
SanitiseName(s) ==
    /\ steps = 0
    /\ steps' = 1
    /\ last' = Call("create_pathname", s, NoRequest, FALSE, FALSE, EmptyTree,
                    "ok", [NoNode EXCEPT !.name = create_pathname(s)])
    /\ workspace' = NewWorkspace(s, Root,
                                 [shape |-> "list",
                                  items |-> <<Item("str", s, <<>>)>>])
    /\ UNCHANGED <<dirs, files, prev, callers, order, exit_code>>

NextPathname == \E s \in NameInputs : SanitiseName(s)

SpecPathname == Init /\ [][NextPathname]_vars

----------------------------------------------------------------------------
(* C17 *)

\* C17: create_pathname(create_pathname(s)) = create_pathname(s) for every
\* string s.
SanitiseIdempotent ==
    last.op = "create_pathname"
      => create_pathname(last.ret.name) = last.ret.name

\* A name longer than the longest kept, with characters that are replaced and
\* removed, was sanitised.
SanitiseIdempotentWitness ==
    /\ last.op = "create_pathname"
    /\ Len(last.name) > MaxPathnameLen
    /\ \E i \in 1..Len(last.name) : last.name[i] = " "
    /\ \E i \in 1..Len(last.name) : last.name[i] = "/"
    /\ Len(last.ret.name) < Len(last.name)

----------------------------------------------------------------------------
(* C18 *)

\* No space, none of < > : " / \ | ? *, no control character, and at most
\* 255 characters.
CleanName(s) ==
    /\ Len(s) <= 255
    /\ \A i \in 1..Len(s) :
          s[i] \notin {" ", "<", ">", ":", "\"", "/", "\\", "|", "?", "*",
                       "\t", "\n", "\f", "\r"}

\* C18: what create_pathname returns is clean and at most 255 characters
\* long, and empty for the empty string; so is the name of every Workspace
\* and of every folder node.
SanitisedNamesClean ==
    /\ last.op = "create_pathname"
         => /\ CleanName(last.ret.name)
            /\ last.name = <<>> => last.ret.name = <<>>
    /\ workspace.live
         => /\ CleanName(workspace.name)
            /\ \A c \in DOMAIN workspace.folders :
                  CleanName(workspace.folders[c].name)

\* A name of more than 255 characters once cleaned, with a control character
\* in it, was cut to 255.
SanitisedNamesCleanWitness ==
    /\ last.op = "create_pathname"
    /\ \E i \in 1..Len(last.name) : last.name[i] = "\n"
    /\ Len(last.name) > 256
    /\ Len(last.ret.name) = 255
    /\ workspace.live
    /\ Len(workspace.name) = 255
    /\ \E c \in DOMAIN workspace.folders : Len(workspace.folders[c].name) = 255

----------------------------------------------------------------------------
(* The Workspace constructor with and without path=..., save and load. *)

\* Workspace(name=name, workspaces_path=workspaces_path, path=path); a path
\* that is not passed is the field default Path("").
WorkspaceAt(name, workspaces_path, path) ==
    populate_missing_paths(
        [NewWorkspace(name, workspaces_path, NoFolders) EXCEPT !.path = path])

\* The path argument: not passed, Path("."), and a directory of its own.
PathArgs ==
    {[kind |-> "nopath", names |-> EmptyPath],
     [kind |-> "path", names |-> EmptyPath],
     [kind |-> "path", names |-> PathJoin(Root, <<"x">>)]}

\* The workspaces_path argument: the storage root and the field default.
WorkspacesPaths == {Root, EmptyPath}

\* workspace = Workspace(name=name, workspaces_path=workspaces_path[, path=])
ConstructWorkspace(name, workspaces_path, arg) ==
    Step(Call("Workspace", name, arg, FALSE, FALSE, EmptyTree, "ok", NoNode),
         [outcome |-> "ok",
          workspace |-> WorkspaceAt(name, workspaces_path, arg.names),
          dirs |-> dirs, files |-> files, ret |-> NoNode],
         TRUE)

\* workspace = Workspace(name=name): neither workspaces_path nor path is
\* passed, both fields have their default Path("").
ConstructWorkspaceByName(name) ==
    Step(Call("Workspace(name)", name, NoRequest, FALSE, FALSE, EmptyTree,
              "ok", NoNode),
         [outcome |-> "ok",
          workspace |-> WorkspaceAt(name, EmptyPath, EmptyPath),
          dirs |-> dirs, files |-> files, ret |-> NoNode],
         TRUE)

\* workspace.save()
SaveWorkspace ==
    /\ workspace.live
    /\ Step(Call("save", <<>>, NoRequest, FALSE, FALSE, workspace.folders,
                 "ok", NoNode),
            Saved(workspace, dirs, files),
            TRUE)

\* workspace = Workspace.load(workspace.path / workspace.config_file)
LoadWorkspace ==
    /\ workspace.live
    /\ Step(Call("load", <<>>, NoRequest, FALSE, FALSE, workspace.folders,
                 "ok", NoNode),
            load(SavePath(workspace), dirs, files),
            load(SavePath(workspace), dirs, files).outcome = "ok")

NextPath ==
    \/ \E name \in WorkspaceNames, p \in WorkspacesPaths, arg \in PathArgs :
          ConstructWorkspace(name, p, arg)
    \/ \E name \in WorkspaceNames : ConstructWorkspaceByName(name)
    \/ \E req \in FolderRequests : WorkspaceCreateFolder(req, FALSE, FALSE)
    \/ SaveWorkspace
    \/ LoadWorkspace

SpecPath == Init /\ [][NextPath]_vars

----------------------------------------------------------------------------
(* C19 *)

RootPathRelation(w) == w.path = PathJoin(w.workspaces_path, w.name)

\* A Workspace constructed without a path has path = workspaces_path / name,
\* the name sanitised.
PathPopulated ==
    [][(last'.op = "Workspace" /\ last'.req.kind = "nopath")
         => /\ workspace'.name = create_pathname(last'.name)
            /\ RootPathRelation(workspace')]_vars

\* create_folder, save and load leave the path and the relation as they were.
PathKept ==
    [][last'.op \in {"create_folder", "save", "load"}
         => /\ workspace'.path = workspace.path
            /\ RootPathRelation(workspace') <=> RootPathRelation(workspace)]_vars

\* C19: a Workspace constructed without a path has path = workspaces_path /
\* name (the name sanitised), one constructed with a path keeps that path, and
\* create_folder, save and load leave the relation as it was.
WorkspaceRootPath ==
    [][/\ (last'.op = "Workspace" /\ last'.req.kind = "nopath")
            => /\ workspace'.name = create_pathname(last'.name)
               /\ RootPathRelation(workspace')
       /\ (last'.op = "Workspace" /\ last'.req.kind = "path")
            => workspace'.path = last'.req.names
       /\ last'.op \in {"create_folder", "save", "load"}
            => /\ workspace'.path = workspace.path
               /\ RootPathRelation(workspace') <=> RootPathRelation(workspace)
      ]_vars

----------------------------------------------------------------------------
(* C20 *)

\* C20: the node a successful create_folder returns has the path and the
\* children key set of the node stored in the workspace tree at the requested
\* chain, also when that node was there already with children of its own.
ReturnedNodeStored ==
    FolderCreated =>
        /\ RequestedChain(last) \in DOMAIN workspace.folders
        /\ last.ret.path = workspace.folders[RequestedChain(last)].path
        /\ last.ret.folders = ChildKeys(workspace.folders, RequestedChain(last))

----------------------------------------------------------------------------
(* C21 *)

\* C21: whenever Workspace.create_folder raises, the folder tree held in
\* memory, the sidecars and the directories on disk are as they were before
\* the call.
CreateFolderAtomic ==
    [][(last'.op = "create_folder" /\ last'.outcome # "ok")
         => /\ workspace'.folders = workspace.folders
            /\ files' = files
            /\ dirs' = dirs]_vars

----------------------------------------------------------------------------
(* A process that dies inside create_folder, and the one that follows it. *)

\* workspace.create_folder(req, force=force) dies after the merge or the
\* initialize and before self.save(): the directories are made, the sidecar is
\* not written, and the next process holds what Workspace.load gives.
CrashInCreateFolder(req, force) ==
    /\ workspace.live
    /\ SavePath(workspace) \in DOMAIN files
    /\ create_folder(workspace, req, FALSE, force, dirs, files).outcome = "ok"
    /\ Step(Call("crash", <<>>, req, FALSE, force, workspace.folders, "ok",
                 NoNode),
            [outcome |-> "crash",
             workspace |-> load(SavePath(workspace), dirs, files).workspace,
             dirs |-> create_folder(workspace, req, FALSE, force, dirs,
                                    files).dirs,
             files |-> files,
             ret |-> NoNode],
            TRUE)

\* The chains created and interrupted: one folder, two nested, and one whose
\* name sanitises to the empty string.
CrashRequests == FolderRequests \cup {List(<<EmptyingName>>)}

NextCrash ==
    \/ \E name \in WorkspaceNames, force \in BOOLEAN :
          CreateWorkspace(name, force, NoFolders)
    \/ \E req \in CrashRequests, force \in BOOLEAN :
          WorkspaceCreateFolder(req, FALSE, force)
    \/ \E req \in CrashRequests, force \in BOOLEAN :
          CrashInCreateFolder(req, force)

SpecCrash == Init /\ [][NextCrash]_vars

----------------------------------------------------------------------------
(* C22 *)

\* The directory of the chain is on disk, and neither the sidecar nor the
\* object loaded from it records the chain.
Unrecorded(chain) ==
    /\ workspace.live
    /\ chain # <<>>
    /\ SavePath(workspace) \in DOMAIN files
    /\ ChainPath(workspace.path, chain) \in dirs
    /\ chain \notin DOMAIN SidecarTree
    /\ chain \notin DOMAIN workspace.folders

\* C22: when the directory of a chain is on disk and the chain is not in the
\* sidecar, create_folder of the chain with force succeeds and the sidecar
\* then records the chain; without force it raises FileExistsError and the
\* sidecar stays as it was.
CrashRecovery ==
    [][(last'.op = "create_folder" /\ Unrecorded(RequestedChain(last')))
         => IF last'.force
            THEN /\ last'.outcome = "ok"
                 /\ RequestedChain(last') \in
                      DOMAIN files'[SavePath(workspace)].folders
                 /\ RequestedChain(last') \in DOMAIN workspace'.folders
            ELSE /\ last'.outcome = "FileExistsError"
                 /\ files' = files]_vars

\* After a crash in create_folder(['a', ' ']) the same chain was created
\* again, with force.
CrashRecoveryWitness ==
    /\ prev.op = "crash"
    /\ prev.req = List(<<A, <<" ">>>>)
    /\ last.op = "create_folder"
    /\ last.req = prev.req
    /\ last.force
    /\ last.outcome = "ok"
    /\ <<A, U>> \notin DOMAIN last.before
    /\ <<A, U>> \in DOMAIN SidecarTree

----------------------------------------------------------------------------
(* Two callers of create_workspace_folder on one workspace. *)

\* The top-level folders the callers create.
RaceNames == {<<"a">>, <<" ">>, <<"b">>}

Other(i) == CHOOSE j \in Callers : j # i

\* create_workspace(name, Root) while no caller has begun.
RaceCreateWorkspace(name) ==
    /\ callers = NoCallers
    /\ CreateWorkspace(name, FALSE, NoFolders)

\* Caller i enters create_workspace_folder([folder], name, Root): the
\* workspace directory exists and the sidecar is loaded. The folder is new to
\* the sidecar and is not the other caller's.
CallerLoads(i, name, folder) ==
    /\ callers[i].pc = "idle"
    /\ Exists(PathJoin(Root, name), dirs, files)
    /\ load(SidecarOf(name), dirs, files).outcome = "ok"
    /\ <<create_pathname(folder)>> \notin DOMAIN files[SidecarOf(name)].folders
    /\ callers[Other(i)].pc # "idle"
         => /\ callers[Other(i)].workspace.path = PathJoin(Root, name)
            /\ callers[Other(i)].req # List(<<folder>>)
    /\ callers' =
         [callers EXCEPT
            ![i] = [pc |-> "loaded",
                    workspace |-> load(SidecarOf(name), dirs, files).workspace,
                    req |-> List(<<folder>>),
                    overlapped |-> callers[Other(i)].pc = "loaded"]]
    /\ last' = Call("load", name, List(<<folder>>), FALSE, FALSE, EmptyTree,
                    "ok", NoNode)
    /\ prev' = Earlier(last)
    /\ UNCHANGED <<dirs, files, workspace, steps, order, exit_code>>

\* Caller i goes on: workspace.create_folder([folder]), which saves.
CallerCreatesFolder(i) ==
    /\ callers[i].pc = "loaded"
    /\ callers' =
         [callers EXCEPT
            ![i].pc = "done",
            ![i].workspace =
               create_folder(callers[i].workspace, callers[i].req, FALSE,
                             FALSE, dirs, files).workspace]
    /\ dirs' = create_folder(callers[i].workspace, callers[i].req, FALSE,
                             FALSE, dirs, files).dirs
    /\ files' = create_folder(callers[i].workspace, callers[i].req, FALSE,
                              FALSE, dirs, files).files
    /\ last' = Call("caller_create_folder", <<>>, callers[i].req, FALSE,
                    FALSE, callers[i].workspace.folders,
                    create_folder(callers[i].workspace, callers[i].req, FALSE,
                                  FALSE, dirs, files).outcome,
                    create_folder(callers[i].workspace, callers[i].req, FALSE,
                                  FALSE, dirs, files).ret)
    /\ prev' = Earlier(last)
    /\ UNCHANGED <<workspace, steps, order, exit_code>>

NextRace ==
    \/ \E name \in WorkspaceNames : RaceCreateWorkspace(name)
    \/ \E i \in Callers, name \in WorkspaceNames, folder \in RaceNames :
          CallerLoads(i, name, folder)
    \/ \E i \in Callers : CallerCreatesFolder(i)

SpecRace == Init /\ [][NextRace]_vars

----------------------------------------------------------------------------
(* C23 *)

\* Both callers have returned.
BothDone == \A i \in Callers : callers[i].pc = "done"

\* A caller loaded the sidecar while the other held a copy it had not saved.
Interleaved == \E i \in Callers : callers[i].overlapped

\* The directory of caller i's folder, and what the sidecar records of it.
FolderOf(i) == ChainOf(callers[i].req)

FolderPathOf(i) == ChainPath(callers[i].workspace.path, FolderOf(i))

RecordedOf(i) ==
    FolderOf(i) \in DOMAIN files[SavePath(callers[i].workspace)].folders

\* C23: once both callers have returned, both directories are on disk; when
\* the calls were interleaved the sidecar records the folder of the caller
\* that saved last and not the other's, and when they ran one after the other
\* it records both.
LostUpdate ==
    BothDone =>
        /\ \A i \in Callers : FolderPathOf(i) \in dirs
        /\ Interleaved
             => \A i \in Callers : RecordedOf(i) <=> callers[i].req = last.req
        /\ ~Interleaved => \A i \in Callers : RecordedOf(i)

\* Both callers loaded before either saved, and both have returned.
LostUpdateWitness ==
    /\ BothDone
    /\ Interleaved
    /\ last.outcome = "ok"
    /\ \E i \in Callers : ~RecordedOf(i)

----------------------------------------------------------------------------
(* C24 *)

\* p lies under the workspace directory, n levels down.
Contained(w, p, n) == IsPrefix(w.path, p) /\ Len(p) = Len(w.path) + n

\* C24: every directory a create_folder makes is a strict descendant of the
\* workspace directory, and after a successful one the node at each position
\* of the chain has a path under the workspace directory, as many levels down
\* as its position in the chain.
FoldersContained ==
    [][last'.op = "create_folder"
         => /\ \A d \in dirs' \ dirs :
                  IsPrefix(workspace.path, d) /\ Len(d) > Len(workspace.path)
            /\ last'.outcome = "ok"
                 => \A c \in Prefixes(RequestedChain(last')) :
                       /\ c \in DOMAIN workspace'.folders
                       /\ Contained(workspace', workspace'.folders[c].path,
                                    Len(c))]_vars

----------------------------------------------------------------------------
(* create_workspace with force on a workspace that has folders. *)

\* The folders passed to the call that overwrites, as a list of strings: none
\* and one.
OverwriteFolders == {<<>>, << <<" ">> >>, << <<"a">> >>}

FoldersArg(keys) ==
    IF keys = <<>> THEN NoFolders
    ELSE [shape |-> "list",
          items |-> [i \in 1..Len(keys) |-> Item("str", keys[i], <<>>)]]

\* workspace = create_workspace(name, Root, force=True, folders=keys)
OverwriteWorkspace(name, keys) ==
    Step(Call("create_workspace", name, List(keys), FALSE, TRUE, EmptyTree,
              "ok", NoNode),
         create_workspace(name, Root, TRUE, FoldersArg(keys), dirs, files),
         create_workspace(name, Root, TRUE, FoldersArg(keys), dirs,
                          files).outcome = "ok")

NextOverwrite ==
    \/ \E name \in WorkspaceNames : CreateWorkspace(name, FALSE, NoFolders)
    \/ \E req \in FolderRequests, force \in BOOLEAN :
          WorkspaceCreateFolder(req, FALSE, force)
    \/ \E name \in WorkspaceNames, keys \in OverwriteFolders :
          OverwriteWorkspace(name, keys)

SpecOverwrite == Init /\ [][NextOverwrite]_vars

----------------------------------------------------------------------------
(* C25 *)

\* The sidecar of the workspace a call names.
SidecarNamed(call) == SidecarOf(create_pathname(call.name))

\* C25: create_workspace with force on a workspace that has a sidecar
\* succeeds, removes no directory, and leaves a sidecar that records the
\* folders passed to the call and no other; no other sidecar changes.
ForceOverwrites ==
    [][(/\ last'.op = "create_workspace"
        /\ last'.force
        /\ SidecarNamed(last') \in DOMAIN files)
         => /\ last'.outcome = "ok"
            /\ dirs \subseteq dirs'
            /\ DOMAIN files' = DOMAIN files
            /\ \A p \in DOMAIN files \ {SidecarNamed(last')} :
                  files'[p] = files[p]
            /\ {create_pathname(files'[SidecarNamed(last')].folders[c].name) :
                  c \in DOMAIN files'[SidecarNamed(last')].folders}
                 = {create_pathname(k) : k \in Elements(last'.req.names)}
            /\ \A c \in DOMAIN files'[SidecarNamed(last')].folders :
                  Len(c) = 1]_vars

\* A workspace whose folder 'a' was created and recorded is overwritten with
\* another folder passed: 'a' is on disk and has no record.
ForceOverwritesWitness ==
    /\ prev.op = "create_folder"
    /\ prev.outcome = "ok"
    /\ prev.req = List(<<A>>)
    /\ last.op = "create_workspace"
    /\ last.force
    /\ last.req = List(<< <<" ">> >>)
    /\ last.outcome = "ok"
    /\ Append(workspace.path, A) \in dirs
    /\ SavePath(workspace) \in DOMAIN files
    /\ DOMAIN SidecarTree # {}
    /\ \A c \in DOMAIN SidecarTree : SidecarTree[c].name # A

----------------------------------------------------------------------------
(* C26 *)

\* C26: a Workspace constructed with a name alone has workspaces_path =
\* get_project_root() / "workspaces" and path = that directory / the sanitised
\* name.
DefaultStorageRoot ==
    last.op = "Workspace(name)"
      => /\ workspace.workspaces_path = DefaultWorkspacesPath
         /\ workspace.path
              = PathJoin(DefaultWorkspacesPath, create_pathname(last.name))

----------------------------------------------------------------------------
(* C27 *)

\* C27: every name list_workspace_folders returns is that of a directory
\* holding a workspace.json file.
ListsOnlyConfigured ==
    (last.op = "list_workspace_folders" /\ last.outcome = "ok")
      => \A n \in last.ret.folders :
            Append(PathJoin(PlaceListed(last), n), config_file_default)
              \in DOMAIN files

----------------------------------------------------------------------------
(* The legacy model (wa/models.py) and create_workspace_subfolder. The      *)
(* subfolders of a node are a dict, which keeps its keys in the order they  *)
(* were put in, in memory and in the sidecar: order is the paths of the     *)
(* nodes in the order they entered a tree.                                  *)

\* The place of path p in the order of insertion.
PlaceOf(p, ord) ==
    CHOOSE i \in 1..Len(ord) : ord[i] = p /\ \A j \in 1..(i - 1) : ord[j] # p

\* next(iter(sf.subfolders.values())): the key of the subfolder of the node
\* at c that was put in first.
FirstChild(tree, c, ord) ==
    CHOOSE k \in ChildKeys(tree, c) :
       \A k2 \in ChildKeys(tree, c) :
          PlaceOf(tree[Append(c, k)].path, ord)
            <= PlaceOf(tree[Append(c, k2)].path, ord)

\* get_deepest_path(sf) for the node sf at c.
RECURSIVE get_deepest_path(_, _, _)
get_deepest_path(tree, c, ord) ==
    IF ChildKeys(tree, c) = {} THEN tree[c].path
    ELSE get_deepest_path(tree, Append(c, FirstChild(tree, c, ord)), ord)

\* The chains of the prefixes of chain that are in tree1 and not in tree0,
\* outermost first: the nodes a call put in.
RECURSIVE PutIn(_, _, _, _)
PutIn(tree0, tree1, chain, k) ==
    IF k > Len(chain) THEN <<>>
    ELSE IF SubSeq(chain, 1, k) \in DOMAIN tree1 \ DOMAIN tree0
    THEN <<tree1[SubSeq(chain, 1, k)].path>> \o PutIn(tree0, tree1, chain, k + 1)
    ELSE PutIn(tree0, tree1, chain, k + 1)

\* Workspace.initialize_subfolder(subfolder, force) for the object built from
\* chain: the merge or the initialize and the save are those of
\* CreateChain; the path returned is the deepest one of the existing
\* top-level subfolder when there was one, of the object built otherwise.
initialize_subfolder(w, chain, force, d, f, ord) ==
    IF CreateChain(w, chain, force, d, f).outcome # "ok"
    THEN CreateChain(w, chain, force, d, f)
    ELSE IF Head(chain) \in ChildKeys(w.folders, <<>>)
    THEN [CreateChain(w, chain, force, d, f) EXCEPT
            !.ret.path =
               get_deepest_path(
                  CreateChain(w, chain, force, d, f).workspace.folders,
                  <<Head(chain)>>,
                  ord \o PutIn(w.folders,
                               CreateChain(w, chain, force, d,
                                           f).workspace.folders,
                               chain, 1))]
    ELSE CreateChain(w, chain, force, d, f)

\* create_workspace_subfolder(names, name, workspaces_folder_path, force),
\* once the workspace is read.
SubfolderIn(read, req, force, ord) ==
    IF read.outcome # "ok" THEN read
    ELSE IF req.names = <<>>
    THEN Raised("UnboundLocalError", NoWorkspace, read.dirs, read.files)
    ELSE initialize_subfolder(read.workspace, ChainOf(req), force, read.dirs,
                              read.files, ord)

create_workspace_subfolder(req, name, workspaces_folder_path, force, d, f, ord) ==
    SubfolderIn(read_workspace_folder(name, workspaces_folder_path, d, f),
                req, force, ord)

\* The subfolders asked for: three names, alone and one under the other.
SubfolderNames == {<<"a">>, <<" ">>, <<"b">>}

SubfolderRequests ==
    {[kind |-> "str", names |-> << <<"a">> >>]}
      \cup {List(<<n>>) : n \in SubfolderNames}
      \cup {List(<<n, m>>) : n \in {<<"a">>}, m \in SubfolderNames}

\* Workspace(name=name, workspaces_folder_path=Root).save(), for a workspace
\* that is not there yet.
SaveLegacyWorkspace(name) ==
    /\ SavePath(NewWorkspace(name, Root, NoFolders)) \notin DOMAIN files
    /\ Step(Call("save", name, NoRequest, FALSE, FALSE, EmptyTree, "ok",
                 NoNode),
            Saved(NewWorkspace(name, Root, NoFolders), dirs, files),
            TRUE)

\* create_workspace_subfolder(req, name, Root, force)
CreateWorkspaceSubfolder(req, name, force) ==
    /\ steps < MaxSteps
    /\ steps' = steps + 1
    /\ prev' = Earlier(last)
    /\ dirs' = create_workspace_subfolder(req, name, Root, force, dirs, files,
                                          order).dirs
    /\ files' = create_workspace_subfolder(req, name, Root, force, dirs,
                                           files, order).files
    /\ last' = Call("create_workspace_subfolder", name, req, FALSE, force,
                    IF read_workspace_folder(name, Root, dirs,
                                             files).outcome = "ok"
                    THEN read_workspace_folder(name, Root, dirs,
                                               files).workspace.folders
                    ELSE EmptyTree,
                    create_workspace_subfolder(req, name, Root, force, dirs,
                                               files, order).outcome,
                    create_workspace_subfolder(req, name, Root, force, dirs,
                                               files, order).ret)
    /\ order' =
         IF read_workspace_folder(name, Root, dirs, files).outcome = "ok"
            /\ req.names # <<>>
         THEN order
                \o PutIn(read_workspace_folder(name, Root, dirs,
                                               files).workspace.folders,
                         create_workspace_subfolder(req, name, Root, force,
                                                    dirs, files,
                                                    order).workspace.folders,
                         ChainOf(req), 1)
         ELSE order
    /\ UNCHANGED <<workspace, callers, exit_code>>

NextLegacy ==
    \/ \E name \in WorkspaceNames : SaveLegacyWorkspace(name)
    \/ \E req \in SubfolderRequests, name \in WorkspaceNames,
          force \in BOOLEAN :
          CreateWorkspaceSubfolder(req, name, force)

SpecLegacy == Init /\ [][NextLegacy]_vars

----------------------------------------------------------------------------
(* C28 *)

\* C28: the path a successful initialize_subfolder returns is that of the
\* last subfolder of the chain asked for,
\* workspace.path / chain[1] / ... / chain[n].
SubfolderPathReturned ==
    (last.op = "create_workspace_subfolder" /\ last.outcome = "ok")
      => last.ret.path
           = ChainPath(PathJoin(Root, create_pathname(last.name)),
                       RequestedChain(last))

----------------------------------------------------------------------------
(* The MCP tool workspace_management (wa/workspace/mcp/tools.py). *)

\* workspace_name=None, which no string equals.
None == <<"None">>

\* A faulty handler: every exception is reported as a failed operation.
ErrorCodeGeneric(e) == "WORKSPACE_FOLDER_FAILED"

\* The except clauses, in their order: the error code for an exception of
\* type e.
ErrorCode(e) ==
    IF e = "PermissionError" THEN "PERMISSION_DENIED"
    ELSE IF e = "FileExistsError" THEN "FILE_EXISTS"
    ELSE IF e = "FileNotFoundError" THEN "FILE_NOT_FOUND"
    ELSE "WORKSPACE_FOLDER_FAILED"

\* return tool_error(message, code, ...) where nothing was called.
ToolError(code, d, f) ==
    [outcome |-> code, workspace |-> NoWorkspace, dirs |-> d, files |-> f,
     ret |-> NoNode]

\* The body of the try once it called r: tool_success(...) when r returned,
\* tool_error(..., exception_type=type(e).__name__) when it raised.
Handled(r) ==
    IF r.outcome = "ok" THEN r
    ELSE [r EXCEPT !.outcome = ErrorCode(r.outcome),
                   !.ret = [NoNode EXCEPT !.name = <<r.outcome>>]]

\* The function the tool calls for a method and a folder_name, on the default
\* storage root; denied says that the operating system refuses it.
ToolCall(workspace_name, folder_name, method, force, denied, d, f) ==
    IF denied THEN Raised("PermissionError", NoWorkspace, d, f)
    ELSE IF method = "list"
    THEN list_workspace_folders(DefaultWorkspacesPath, d, f)
    ELSE IF method = "create" /\ Len(folder_name) > 0
    THEN create_workspace_folder(List(folder_name), workspace_name,
                                 DefaultWorkspacesPath, FALSE, force, d, f)
    ELSE IF method = "create"
    THEN create_workspace(workspace_name, DefaultWorkspacesPath, force,
                          NoFolders, d, f)
    ELSE IF Len(folder_name) > 0
    THEN read_workspace_subfolder(List(folder_name), workspace_name,
                                  DefaultWorkspacesPath, d, f)
    ELSE read_workspace(workspace_name, DefaultWorkspacesPath, d, f)

\* workspace_management(workspace_name, folder_name, method, force=force)
workspace_management(workspace_name, folder_name, method, force, denied, d, f) ==
    IF method = "list"
    THEN Handled(ToolCall(workspace_name, folder_name, method, force, denied,
                          d, f))
    ELSE IF workspace_name = None
    THEN ToolError("INVALID_WORKSPACE_NAME", d, f)
    ELSE IF method \in {"create", "read"}
    THEN Handled(ToolCall(workspace_name, folder_name, method, force, denied,
                          d, f))
    ELSE ToolError("UNKNOWN_METHOD", d, f)

\* What the tool is called with: the three methods and one it does not know,
\* a workspace name or none, no folder, one, and one under a folder that may
\* be missing.
ToolMethods == {"list", "create", "read", "delete"}

ToolNames == {None, <<"w">>}

ToolFolders == {<<>>, <<A>>, <<A, <<"b">>>>}

\* workspace_management(workspace_name, folder_name, method, force=force)
ManageWorkspace(workspace_name, folder_name, method, force, denied) ==
    Step(Call("workspace_management", workspace_name,
              [kind |-> method, names |-> folder_name], FALSE, force,
              EmptyTree, "ok", NoNode),
         workspace_management(workspace_name, folder_name, method, force,
                              denied, dirs, files),
         FALSE)

NextTool ==
    \E workspace_name \in ToolNames, folder_name \in ToolFolders,
       method \in ToolMethods, force \in BOOLEAN, denied \in BOOLEAN :
       ManageWorkspace(workspace_name, folder_name, method, force, denied)

SpecTool == Init /\ [][NextTool]_vars

----------------------------------------------------------------------------
(* C29 *)

ToolErrorCodes ==
    {"PERMISSION_DENIED", "FILE_EXISTS", "FILE_NOT_FOUND",
     "WORKSPACE_FOLDER_FAILED", "INVALID_WORKSPACE_NAME", "UNKNOWN_METHOD"}

\* The type of the exception the tool caught, "" when it caught none.
Caught(call) ==
    IF call.outcome = "ok" \/ call.ret.name = <<>> THEN ""
    ELSE call.ret.name[1]

\* C29: workspace_management returns a success or one of its error codes,
\* never an exception; a PermissionError gives PERMISSION_DENIED, a
\* FileExistsError FILE_EXISTS, a FileNotFoundError FILE_NOT_FOUND and any
\* other exception WORKSPACE_FOLDER_FAILED; 'list' is served without a
\* workspace name; for another method a missing name gives
\* INVALID_WORKSPACE_NAME and a method other than create and read gives
\* UNKNOWN_METHOD, the disk untouched in both cases.
ToolMapsErrors ==
    [][last'.op = "workspace_management"
         => /\ last'.outcome \in {"ok"} \cup ToolErrorCodes
            /\ last'.outcome = "PERMISSION_DENIED"
                 <=> Caught(last') = "PermissionError"
            /\ last'.outcome = "FILE_EXISTS"
                 <=> Caught(last') = "FileExistsError"
            /\ last'.outcome = "FILE_NOT_FOUND"
                 <=> Caught(last') = "FileNotFoundError"
            /\ last'.outcome = "WORKSPACE_FOLDER_FAILED"
                 <=> Caught(last') \notin {"", "PermissionError",
                                           "FileExistsError",
                                           "FileNotFoundError"}
            /\ last'.req.kind = "list"
                 => last'.outcome \notin {"INVALID_WORKSPACE_NAME",
                                          "UNKNOWN_METHOD"}
            /\ (last'.req.kind # "list" /\ last'.name = None)
                 => /\ last'.outcome = "INVALID_WORKSPACE_NAME"
                    /\ dirs' = dirs /\ files' = files
            /\ (last'.req.kind \notin {"list", "create", "read"}
                  /\ last'.name # None)
                 => /\ last'.outcome = "UNKNOWN_METHOD"
                    /\ dirs' = dirs /\ files' = files]_vars

\* The tool caught an exception that is none of the three it names: the read
\* of a folder whose first segment is missing.
ToolMapsErrorsWitness ==
    /\ last.op = "workspace_management"
    /\ last.req.kind = "read"
    /\ last.outcome = "WORKSPACE_FOLDER_FAILED"
    /\ Caught(last) = "KeyError"
    /\ prev.op = "workspace_management"
    /\ prev.outcome \in {"FILE_EXISTS", "PERMISSION_DENIED"}

----------------------------------------------------------------------------
(* The commands of the command line (wa/folder/cli, wa/subfolder/cli). *)

\* The status a command's process ends with: the code of the exit signal when
\* the command raised it, and 0 when the command returned.
ExitStatus(command) ==
    IF command.raised THEN command.signal.exit_code ELSE 0

\* workspace_folder_delete(name, workspaces_folder_path, force): the message
\* printed, and the signal typer.Exit() the handlers make, with its default
\* code, and assign to _ without raising it.
workspace_folder_delete(name, workspaces_folder_path, force, d, f) ==
    [operation |-> delete_workspace(name, workspaces_folder_path, force, d, f),
     printed |->
       IF delete_workspace(name, workspaces_folder_path, force, d,
                           f).outcome = "ok"
       THEN "Workspace deleted"
       ELSE IF delete_workspace(name, workspaces_folder_path, force, d,
                                f).outcome = "FileExistsError"
       THEN "has subfolders"
       ELSE "Unable to delete workspace directory",
     signal |-> [exit_code |-> 0],
     raised |-> FALSE]

\* workspace_subfolder_create(workspace_name, subfolder_name,
\* workspaces_folder_path, force), subfolder_name being one string.
workspace_subfolder_create(workspace_name, subfolder_name, workspaces_folder_path, force, d, f, ord) ==
    [operation |->
       create_workspace_subfolder([kind |-> "str",
                                   names |-> <<subfolder_name>>],
                                  workspace_name, workspaces_folder_path,
                                  force, d, f, ord),
     printed |->
       IF create_workspace_subfolder([kind |-> "str",
                                      names |-> <<subfolder_name>>],
                                     workspace_name, workspaces_folder_path,
                                     force, d, f, ord).outcome = "ok"
       THEN "Workspace subfolder created"
       ELSE IF create_workspace_subfolder([kind |-> "str",
                                           names |-> <<subfolder_name>>],
                                          workspace_name,
                                          workspaces_folder_path, force, d, f,
                                          ord).outcome = "FileExistsError"
       THEN "already exists"
       ELSE "Unable to create workspace subfolder",
     signal |-> [exit_code |-> 0],
     raised |-> FALSE]

\* wa folder delete name --workspaces-folder-path Root [--force]
WorkspaceFolderDelete(name, force) ==
    /\ steps < MaxSteps
    /\ steps' = steps + 1
    /\ prev' = Earlier(last)
    /\ dirs' = workspace_folder_delete(name, Root, force, dirs,
                                       files).operation.dirs
    /\ files' = workspace_folder_delete(name, Root, force, dirs,
                                        files).operation.files
    /\ last' = Call("workspace_folder_delete", name, NoRequest, FALSE, force,
                    EmptyTree,
                    workspace_folder_delete(name, Root, force, dirs,
                                            files).operation.outcome,
                    [NoNode EXCEPT
                       !.name = <<workspace_folder_delete(name, Root, force,
                                                          dirs,
                                                          files).printed>>])
    /\ exit_code' = ExitStatus(workspace_folder_delete(name, Root, force,
                                                       dirs, files))
    /\ UNCHANGED <<workspace, callers, order>>

\* wa subfolder create workspace_name subfolder_name
\*    --workspaces-folder-path Root [--force]
WorkspaceSubfolderCreate(workspace_name, subfolder_name, force) ==
    /\ steps < MaxSteps
    /\ steps' = steps + 1
    /\ prev' = Earlier(last)
    /\ dirs' = workspace_subfolder_create(workspace_name, subfolder_name,
                                          Root, force, dirs, files,
                                          order).operation.dirs
    /\ files' = workspace_subfolder_create(workspace_name, subfolder_name,
                                           Root, force, dirs, files,
                                           order).operation.files
    /\ last' = Call("workspace_subfolder_create", workspace_name,
                    [kind |-> "str", names |-> <<subfolder_name>>], FALSE,
                    force, EmptyTree,
                    workspace_subfolder_create(workspace_name, subfolder_name,
                                               Root, force, dirs, files,
                                               order).operation.outcome,
                    [NoNode EXCEPT
                       !.name = <<workspace_subfolder_create(
                                    workspace_name, subfolder_name, Root,
                                    force, dirs, files, order).printed>>])
    /\ exit_code' = ExitStatus(workspace_subfolder_create(
                                 workspace_name, subfolder_name, Root, force,
                                 dirs, files, order))
    /\ UNCHANGED <<workspace, callers, order>>

NextCli ==
    \/ \E name \in WorkspaceNames : SaveLegacyWorkspace(name)
    \/ \E name \in WorkspaceNames, force \in BOOLEAN :
          WorkspaceFolderDelete(name, force)
    \/ \E workspace_name \in WorkspaceNames,
          subfolder_name \in SubfolderNames, force \in BOOLEAN :
          WorkspaceSubfolderCreate(workspace_name, subfolder_name, force)

SpecCli == Init /\ [][NextCli]_vars

----------------------------------------------------------------------------
(* C30 *)

CliCommands == {"workspace_folder_delete", "workspace_subfolder_create"}

\* C30: a command whose operation failed has printed a warning and ends with
\* a status other than 0, and a command ends with status 0 only when its
\* operation succeeded.
CliExitStatus ==
    last.op \in CliCommands
      => /\ last.outcome # "ok"
              => /\ last.ret.name
                      \notin {<<"Workspace deleted">>,
                              <<"Workspace subfolder created">>}
                 /\ exit_code # 0
         /\ exit_code = 0 => last.outcome = "ok"

====
